---- MODULE Spec2Model ----
(***************************************************************************)
(* Model of app.py: the "Générateur PC" and "Mise à jour M2" pages, the    *)
(* tabular reader (read_csv / read_any) and sanitize_code.                 *)
(*                                                                         *)
(* Text is a sequence of tokens.  Inside codes and cells every token is    *)
(* one character; in the rendered artifacts a token may also be a literal  *)
(* fragment of an f-string ("PC_", ";frxProductCatalog:Online", ...).      *)
(* The token "sup2" stands for the single character U+00B2 (superscript    *)
(* two), for which Python's str.isdigit() is True although it is not a     *)
(* decimal digit.                                                          *)
(***************************************************************************)
EXTENDS Naturals, Sequences, FiniteSets, TLC

VARIABLES
  pc,            \* position of the running script ("form" = waiting for a click)
  page,          \* st.sidebar.radio: "Générateur PC" / "Mise à jour M2"
  entreprise,    \* st.text_input
  statut,        \* st.selectbox
  rd,            \* the tabular reader: which upload is read, loop position, buffer
  raw_codes,     \* Series of extracted code strings
  comptes,       \* Series of extracted account strings (Générateur PC only)
  sanitized,     \* raw_codes.apply(sanitize_code)
  map_cols,      \* the two selected columns of df_map, <<old cells, new cells>>
  mapping,       \* dict old -> new, as the sequence of its items in insertion order
  updated_codes, \* sanitized.map(...)
  changed_mask,
  not_found,
  dstr,          \* today_yyMMdd()
  artifacts,     \* the st.download_button calls made so far, in order
  error,         \* the st.warning / st.error shown before st.stop(), or "none"
  san_in,        \* argument typed for a stand-alone call of sanitize_code
  san_out        \* its result, or NotRun

vars == <<pc, page, entreprise, statut, rd, raw_codes, comptes, sanitized,
          map_cols, mapping, updated_codes, changed_mask, not_found, dstr,
          artifacts, error, san_in, san_out>>

flowVars == <<pc, page, entreprise, statut, rd, raw_codes, comptes, sanitized,
              map_cols, mapping, updated_codes, changed_mask, not_found, dstr,
              artifacts, error>>

(***************************************************************************)
(* Bounds of the model.                                                    *)
(***************************************************************************)
MaxRawLen == 7      \* longest argument typed for a stand-alone sanitize_code call
MaxCodes == 3       \* most cells in the selected codes column
MaxComptes == 2     \* most cells in the selected accounts column
MaxMapRows == 2     \* most rows of the mapping table

(***************************************************************************)
(* Characters and Python's str methods.                                    *)
(***************************************************************************)
DecimalChars == {"0", "1", "2", "3", "4", "5", "6", "7", "8", "9"}

\* str.isdigit() per character: decimal digits and the other Unicode
\* characters of Numeric_Type=Digit, of which "sup2" is one.
IsDigitChar(c) == c \in DecimalChars \cup {"sup2"}

IsSpaceChar(c) == c = " "

\* Python's None / pandas' missing value inside a Series of strings.
None == <<"None">>

RECURSIVE lstrip(_)
lstrip(s) == IF s # <<>> /\ IsSpaceChar(Head(s)) THEN lstrip(Tail(s)) ELSE s

RECURSIVE rstrip(_)
rstrip(s) ==
  IF s # <<>> /\ IsSpaceChar(s[Len(s)]) THEN rstrip(SubSeq(s, 1, Len(s) - 1)) ELSE s

\* str.strip()
strip(s) == rstrip(lstrip(s))

\* str.isdigit(): at least one character and every character a digit
isdigit(s) == s # <<>> /\ \A i \in 1..Len(s) : IsDigitChar(s[i])

\* str.isdecimal(), the property the 6-digit rule is about
IsDecimalString(s) == s # <<>> /\ \A i \in 1..Len(s) : s[i] \in DecimalChars

RECURSIVE zfill(_, _)
zfill(s, width) == IF Len(s) >= width THEN s ELSE zfill(<<"0">> \o s, width)

sanitize_code(code) ==
  LET s == strip(code) IN
    IF ~isdigit(s) THEN None
    ELSE LET t == IF Len(s) = 5 THEN zfill(s, 6) ELSE s IN
           IF Len(t) # 6 THEN None ELSE t

(***************************************************************************)
(* Table cells and the pandas operations the pages apply to a column.      *)
(* A cell is a string, an integer, an integral float or missing (NaN).     *)
(***************************************************************************)
StrCell(s) == [k |-> "str", s |-> s, n |-> 0]
IntCell(n) == [k |-> "int", s |-> <<>>, n |-> n]
FloatCell(n) == [k |-> "float", s |-> <<>>, n |-> n]
NaNCell == [k |-> "nan", s |-> <<>>, n |-> 0]

DigitChar(d) ==
  CASE d = 0 -> "0" [] d = 1 -> "1" [] d = 2 -> "2" [] d = 3 -> "3" [] d = 4 -> "4"
    [] d = 5 -> "5" [] d = 6 -> "6" [] d = 7 -> "7" [] d = 8 -> "8" [] d = 9 -> "9"

\* str(n) of a non-negative int
RECURSIVE IntToStr(_)
IntToStr(n) == IF n < 10 THEN <<DigitChar(n)>> ELSE IntToStr(n \div 10) \o <<DigitChar(n % 10)>>

\* Series.astype(str), per cell: str(value); str(nan) is "nan", str(12345.0) is "12345.0"
astype_str(cell) ==
  CASE cell.k = "str" -> cell.s
    [] cell.k = "int" -> IntToStr(cell.n)
    [] cell.k = "float" -> IntToStr(cell.n) \o <<".", "0">>
    [] cell.k = "nan" -> <<"n", "a", "n">>

\* Series.dropna()
dropna(col) == SelectSeq(col, LAMBDA cell : cell.k # "nan")

\* df.iloc[:, idx-1].dropna().astype(str).str.strip() on the selected column
extract_column(col) ==
  LET kept == dropna(col) IN [i \in 1..Len(kept) |-> strip(astype_str(kept[i]))]

\* df_map.iloc[:, idx-1].astype(str).apply(sanitize_code): no dropna here
sanitize_column(col) == [i \in 1..Len(col) |-> sanitize_code(astype_str(col[i]))]

SeqsUpTo(S, n) == UNION {[1..m -> S] : m \in 0..n}

(***************************************************************************)
(* Form values.                                                            *)
(***************************************************************************)
Pages == {"Generateur PC", "Mise a jour M2"}
Entreprises == {<<>>, <<"A", "C", "M", "E">>}
Statuts == {<<>>, <<"INCLUDE">>, <<"EXCLUDE">>}
Dates == {<<"250714">>, <<"261102">>}

NotRun == <<"NotRun">>

(***************************************************************************)
(* Uploaded files as the reader sees them.  A CSV upload is described by   *)
(* its size and by what one attempt of read_csv's loop does with it under  *)
(* each encoding; a spreadsheet by whether pd.read_excel parses it.        *)
(***************************************************************************)
Encodings == <<"utf-8", "latin1", "cp1252">>
SampleSize == 2048
BufSizes == {0, 100, 5000}
Outcomes == {"ok", "csvError", "decodeError", "parserError"}

NoOutcome == [k \in 1..3 |-> "csvError"]

\* latin1 decodes every byte; an empty sample never yields a delimiter.
CsvFiles ==
  {[suffix |-> ".csv", size |-> n, out |-> o, xl |-> "na"] :
     n \in BufSizes \ {0}, o \in {q \in [1..3 -> Outcomes] : q[2] # "decodeError"}}
  \cup {[suffix |-> ".csv", size |-> 0, out |-> NoOutcome, xl |-> "na"]}

ExcelFiles ==
  {[suffix |-> sfx, size |-> 100, out |-> NoOutcome, xl |-> x] :
     sfx \in {".xlsx", ".xls"}, x \in {"ok", "error"}}

OtherFiles == {[suffix |-> ".txt", size |-> 100, out |-> NoOutcome, xl |-> "na"]}

Min(a, b) == IF a < b THEN a ELSE b

RdIdle ==
  [ph |-> "idle", f |-> [suffix |-> "", size |-> 0, out |-> NoOutcome, xl |-> "na"],
   i |-> 0, pos |-> 0, tried |-> <<>>]

(***************************************************************************)
(* Initial state: the form is shown, nothing has been generated.           *)
(***************************************************************************)
Init ==
  /\ pc = "form"
  /\ page = "Generateur PC"
  /\ entreprise = <<>>
  /\ statut = <<>>
  /\ rd = RdIdle
  /\ raw_codes = <<>>
  /\ comptes = <<>>
  /\ sanitized = <<>>
  /\ map_cols = <<<<>>, <<>>>>
  /\ mapping = <<>>
  /\ updated_codes = <<>>
  /\ changed_mask = <<>>
  /\ not_found = <<>>
  /\ dstr = <<>>
  /\ artifacts = <<>>
  /\ error = "none"
  /\ san_in = <<>>
  /\ san_out = NotRun

dataVars == <<raw_codes, comptes, sanitized, map_cols, mapping, updated_codes,
              changed_mask, not_found, dstr, artifacts>>
sanVars == <<san_in, san_out>>

\* st.stop() after a message: the script run ends here.
Stop(kind) == pc' = "stopped" /\ error' = kind

(***************************************************************************)
(* The button: lines 99-102 (Générateur PC) and 196-199 (Mise à jour M2).  *)
(* A column selector exists exactly when its file is uploaded, and         *)
(* st.number_input(.., 1, 50, ..) never yields 0, so it is truthy then.    *)
(***************************************************************************)
Click ==
  /\ pc = "form"
  /\ \E p \in Pages, codes_file \in BOOLEAN, second_file \in BOOLEAN,
        e \in Entreprises, s \in Statuts :
       /\ page' = p
       /\ entreprise' = e
       /\ statut' = s
       /\ IF ~(codes_file /\ second_file /\ e # <<>> /\ s # <<>>)
            THEN Stop("MissingInput")
            ELSE pc' = "read_codes" /\ error' = error
  /\ UNCHANGED <<rd, dataVars, sanVars>>

(***************************************************************************)
(* read_any, lines 49-59, called for the codes file and then for the       *)
(* second file (accounts or mapping table), lines 105-106 / 202-203.       *)
(***************************************************************************)
Reading == pc \in {"read_codes", "read_second"}

\* suffix == ".csv": read_csv(io.BytesIO(data)), a fresh buffer at offset 0
read_any_csv ==
  /\ Reading /\ rd.ph = "idle"
  /\ \E f \in CsvFiles :
       rd' = [ph |-> "loop", f |-> f, i |-> 1, pos |-> 0, tried |-> <<>>]
  /\ UNCHANGED <<pc, page, entreprise, statut, error, dataVars, sanVars>>

\* suffix in {".xlsx", ".xls"}: file.seek(0); pd.read_excel(file, engine=...)
read_any_excel ==
  /\ Reading /\ rd.ph = "idle"
  /\ \E f \in ExcelFiles :
       rd' = [ph |-> IF f.xl = "ok" THEN "returned" ELSE "raised",
              f |-> f, i |-> 0, pos |-> 0, tried |-> <<>>]
  /\ UNCHANGED <<pc, page, entreprise, statut, error, dataVars, sanVars>>

\* any other suffix: raise ValueError("Extension non gérée")
read_any_other ==
  /\ Reading /\ rd.ph = "idle"
  /\ \E f \in OtherFiles :
       rd' = [ph |-> "raised", f |-> f, i |-> 0, pos |-> 0, tried |-> <<>>]
  /\ UNCHANGED <<pc, page, entreprise, statut, error, dataVars, sanVars>>

(***************************************************************************)
(* read_csv, lines 35-46, one action per statement of the loop body.       *)
(***************************************************************************)
RdStep(ph) == Reading /\ rd.ph = ph

\* Faulty variant of CsvSeekSample: the loop does not rewind before the sample read.
CsvSeekSample_noseek ==
  /\ RdStep("loop") /\ rd.i <= Len(Encodings)
  /\ rd' = [rd EXCEPT !.ph = "sample"]
  /\ UNCHANGED <<pc, page, entreprise, statut, error, dataVars, sanVars>>

\* line 38: buf.seek(0)
CsvSeekSample ==
  /\ RdStep("loop") /\ rd.i <= Len(Encodings)
  /\ rd' = [rd EXCEPT !.ph = "sample", !.pos = 0]
  /\ UNCHANGED <<pc, page, entreprise, statut, error, dataVars, sanVars>>

\* line 40: buf.read(2048).decode(enc, errors="ignore") never raises
CsvReadSample ==
  /\ RdStep("sample")
  /\ rd' = [rd EXCEPT !.ph = "sniff",
                      !.pos = Min(rd.pos + SampleSize, rd.f.size),
                      !.tried = Append(rd.tried, Encodings[rd.i])]
  /\ UNCHANGED <<pc, page, entreprise, statut, error, dataVars, sanVars>>

\* line 41: csv.Sniffer().sniff(...) raises csv.Error or yields the delimiter
CsvSniff ==
  /\ RdStep("sniff")
  /\ rd' = IF rd.f.out[rd.i] = "csvError"
             THEN [rd EXCEPT !.ph = "loop", !.i = rd.i + 1]
             ELSE [rd EXCEPT !.ph = "seek2"]
  /\ UNCHANGED <<pc, page, entreprise, statut, error, dataVars, sanVars>>

\* line 42: buf.seek(0)
CsvSeekParse ==
  /\ RdStep("seek2")
  /\ rd' = [rd EXCEPT !.ph = "parse", !.pos = 0]
  /\ UNCHANGED <<pc, page, entreprise, statut, error, dataVars, sanVars>>

\* line 43: return pd.read_csv(...), or UnicodeDecodeError / ParserError and
\* `continue` (lines 44-45) with the buffer left wherever the parser stopped
CsvParse ==
  /\ RdStep("parse")
  /\ \/ /\ rd.f.out[rd.i] = "ok"
        /\ rd' = [rd EXCEPT !.ph = "returned", !.pos = rd.f.size]
     \/ /\ rd.f.out[rd.i] # "ok"
        /\ \E p \in {0, rd.f.size} :
             rd' = [rd EXCEPT !.ph = "loop", !.i = rd.i + 1, !.pos = p]
  /\ UNCHANGED <<pc, page, entreprise, statut, error, dataVars, sanVars>>

\* line 46: the loop is exhausted, raise ValueError("CSV illisible ...")
CsvExhausted ==
  /\ RdStep("loop") /\ rd.i > Len(Encodings)
  /\ rd' = [rd EXCEPT !.ph = "raised"]
  /\ UNCHANGED <<pc, page, entreprise, statut, error, dataVars, sanVars>>

\* read_any returned a table: on to the next statement of the page
ReadReturn ==
  /\ RdStep("returned")
  /\ pc' = IF pc = "read_codes" THEN "read_second" ELSE "extract"
  /\ rd' = RdIdle
  /\ UNCHANGED <<page, entreprise, statut, error, dataVars, sanVars>>

\* lines 107-109 / 204-206: except Exception -> st.error, st.stop()
ReadError ==
  /\ RdStep("raised")
  /\ Stop("ReadError")
  /\ rd' = RdIdle
  /\ UNCHANGED <<page, entreprise, statut, dataVars, sanVars>>

(***************************************************************************)
(* Column extraction.  An uploaded table is drawn where the page first     *)
(* looks inside it: as its column count, and the cells of the column the   *)
(* selector addresses.  df.iloc[:, idx-1] raises IndexError when           *)
(* idx - 1 >= column count.                                                *)
(***************************************************************************)
Sup2x6 == <<"sup2", "sup2", "sup2", "sup2", "sup2", "sup2">>

CodeCells ==
  {IntCell(11111), StrCell(<<" ", "2", "2", "2", "2", "2", "2", " ">>), StrCell(Sup2x6),
   StrCell(<<" ", " ">>), NaNCell}

CompteCells == {StrCell(<<" ", "A", "1">>), StrCell(<<" ", " ">>), NaNCell}

\* Rows of the mapping table restricted to the two addressed columns: a code
\* replaced, a code mapped to itself, a second old code, a missing old cell
\* and a new cell of a float column ("222222.0").
MapRowSamples ==
  {<<IntCell(11111), StrCell(<<"2", "2", "2", "2", "2", "2">>)>>,
   <<IntCell(11111), IntCell(11111)>>,
   <<StrCell(<<"2", "2", "2", "2", "2", "2">>), IntCell(11111)>>,
   <<NaNCell, IntCell(11111)>>,
   <<IntCell(11111), FloatCell(222222)>>}

NCols == {1, 2}
ColIdx == {1, 2, 50}

IndexError(idx, ncols) == idx - 1 >= ncols

\* lines 112-117 (Générateur PC): both columns in one try block
ExtractGen ==
  /\ pc = "extract" /\ page = "Generateur PC"
  /\ \/ /\ \E nc_codes \in NCols, col_idx_codes \in ColIdx,
              nc_comptes \in NCols, col_idx_comptes \in ColIdx :
             IndexError(col_idx_codes, nc_codes) \/ IndexError(col_idx_comptes, nc_comptes)
        /\ Stop("ColumnOutOfRange")
        /\ UNCHANGED <<raw_codes, comptes>>
     \/ /\ \E nc_codes \in NCols, col_idx_codes \in ColIdx,
              nc_comptes \in NCols, col_idx_comptes \in ColIdx :
             ~IndexError(col_idx_codes, nc_codes) /\ ~IndexError(col_idx_comptes, nc_comptes)
        /\ \E codes_col \in SeqsUpTo(CodeCells, MaxCodes),
              comptes_col \in SeqsUpTo(CompteCells, MaxComptes) :
             /\ raw_codes' = extract_column(codes_col)
             /\ comptes' = extract_column(comptes_col)
        /\ pc' = "sanitize"
        /\ error' = error
  /\ UNCHANGED <<page, entreprise, statut, rd, sanitized, map_cols, mapping,
                 updated_codes, changed_mask, not_found, dstr, artifacts, sanVars>>

\* lines 209-213 (Mise à jour M2)
ExtractMaj ==
  /\ pc = "extract" /\ page = "Mise a jour M2"
  /\ \/ /\ \E nc_codes \in NCols, col_idx_codes \in ColIdx :
             IndexError(col_idx_codes, nc_codes)
        /\ Stop("ColumnOutOfRange")
        /\ UNCHANGED raw_codes
     \/ /\ \E nc_codes \in NCols, col_idx_codes \in ColIdx :
             ~IndexError(col_idx_codes, nc_codes)
        /\ \E codes_col \in SeqsUpTo(CodeCells, MaxCodes) :
             raw_codes' = extract_column(codes_col)
        /\ pc' = "sanitize"
        /\ error' = error
  /\ UNCHANGED <<page, entreprise, statut, rd, comptes, sanitized, map_cols, mapping,
                 updated_codes, changed_mask, not_found, dstr, artifacts, sanVars>>

(***************************************************************************)
(* Validation of the codes, lines 119-126 / 215-220.                       *)
(***************************************************************************)
\* line 119 / 215: raw_codes.apply(sanitize_code)
apply_sanitize(codes) == [i \in 1..Len(codes) |-> sanitize_code(codes[i])]

\* Series.isna().any()
AnyNone(s) == \E i \in 1..Len(s) : s[i] = None

\* Faulty variant of Sanitize: invalid codes do not stop the run.
Sanitize_nostop ==
  /\ pc = "sanitize"
  /\ sanitized' = apply_sanitize(raw_codes)
  /\ pc' = IF page = "Generateur PC" THEN "render" ELSE "mapping"
  /\ error' = error
  /\ UNCHANGED <<page, entreprise, statut, rd, raw_codes, comptes, map_cols, mapping,
                 updated_codes, changed_mask, not_found, dstr, artifacts, sanVars>>

Sanitize ==
  /\ pc = "sanitize"
  /\ sanitized' = apply_sanitize(raw_codes)
  /\ IF AnyNone(sanitized')
       THEN Stop("InvalidCode")
       ELSE /\ pc' = IF page = "Generateur PC" THEN "render" ELSE "mapping"
            /\ error' = error
  /\ UNCHANGED <<page, entreprise, statut, rd, raw_codes, comptes, map_cols, mapping,
                 updated_codes, changed_mask, not_found, dstr, artifacts, sanVars>>

(***************************************************************************)
(* The mapping table, lines 223-236.                                       *)
(***************************************************************************)
\* pd.DataFrame({"old": old_codes, "new": new_codes}).dropna(), as rows <<old, new>>
map_df(old_codes, new_codes) ==
  SelectSeq([i \in 1..Len(old_codes) |-> <<old_codes[i], new_codes[i]>>],
            LAMBDA r : r[1] # None /\ r[2] # None)

\* Faulty variant of drop_duplicates_old: keep="last".
drop_duplicates_old_last(rows) ==
  LET keep(i) == \A j \in (i + 1)..Len(rows) : rows[j][1] # rows[i][1]
      F[i \in 0..Len(rows)] ==
        IF i = 0 THEN <<>> ELSE IF keep(i) THEN Append(F[i - 1], rows[i]) ELSE F[i - 1]
  IN F[Len(rows)]

\* DataFrame.drop_duplicates("old"): the first row of every old code is kept
drop_duplicates_old(rows) ==
  LET keep(i) == \A j \in 1..(i - 1) : rows[j][1] # rows[i][1]
      F[i \in 0..Len(rows)] ==
        IF i = 0 THEN <<>> ELSE IF keep(i) THEN Append(F[i - 1], rows[i]) ELSE F[i - 1]
  IN F[Len(rows)]

\* mapping.keys()
Keys(m) == {m[i][1] : i \in 1..Len(m)}

\* mapping.get(c, default)
Get(m, c, default) ==
  IF c \in Keys(m) THEN m[CHOOSE i \in 1..Len(m) : m[i][1] = c][2] ELSE default

MapRows == SeqsUpTo(MapRowSamples, MaxMapRows)

\* The table is drawn as its column count and its rows restricted to the two
\* addressed columns (the same column twice when both selectors are equal).
BuildMapping ==
  /\ pc = "mapping"
  /\ \/ /\ \E nc_map \in NCols, col_idx_old \in ColIdx, col_idx_new \in ColIdx :
             IndexError(col_idx_old, nc_map) \/ IndexError(col_idx_new, nc_map)
        /\ Stop("ColumnOutOfRange")
        /\ UNCHANGED <<map_cols, mapping>>
     \/ \E same_column \in BOOLEAN :
          /\ \E nc_map \in NCols, col_idx_old \in ColIdx, col_idx_new \in ColIdx :
               /\ ~IndexError(col_idx_old, nc_map) /\ ~IndexError(col_idx_new, nc_map)
               /\ same_column <=> col_idx_old = col_idx_new
          /\ \E rows \in MapRows :
               LET old_col == [i \in 1..Len(rows) |-> rows[i][1]]
                   new_col == [i \in 1..Len(rows) |-> rows[i][2]]
                   df == map_df(sanitize_column(old_col), sanitize_column(new_col))
               IN /\ same_column => old_col = new_col
                  /\ map_cols' = <<old_col, new_col>>
                  /\ IF df = <<>>
                       THEN Stop("EmptyMapping") /\ mapping' = mapping
                       ELSE /\ mapping' = drop_duplicates_old(df)
                            /\ pc' = "apply"
                            /\ error' = error
  /\ UNCHANGED <<page, entreprise, statut, rd, raw_codes, comptes, sanitized,
                 updated_codes, changed_mask, not_found, dstr, artifacts, sanVars>>

(***************************************************************************)
(* Applying the mapping, lines 239-246.  df_map is not read after line     *)
(* 236, so its columns are dropped from the state here.                    *)
(***************************************************************************)
\* Faulty variant of apply_mapping: mapping.get(c) without the default.
apply_mapping_nodefault(codes, m) == [i \in 1..Len(codes) |-> Get(m, codes[i], None)]

\* line 239: sanitized.map(lambda c: mapping.get(c, c))
apply_mapping(codes, m) == [i \in 1..Len(codes) |-> Get(m, codes[i], codes[i])]

\* line 240: updated_codes != sanitized
changed_of(codes, updated) == [i \in 1..Len(codes) |-> updated[i] # codes[i]]

\* Faulty variant of not_found_of: a code mapped to itself counts as unmatched.
not_found_of_unchanged(codes, m) ==
  [i \in 1..Len(codes) |-> codes[i] # None /\ Get(m, codes[i], codes[i]) = codes[i]]

\* line 241: (~sanitized.isna()) & (~sanitized.isin(mapping.keys()))
not_found_of(codes, m) ==
  [i \in 1..Len(codes) |-> codes[i] # None /\ codes[i] \notin Keys(m)]

ApplyMapping ==
  /\ pc = "apply"
  /\ updated_codes' = apply_mapping(sanitized, mapping)
  /\ changed_mask' = changed_of(sanitized, updated_codes')
  /\ not_found' = not_found_of(sanitized, mapping)
  /\ map_cols' = <<<<>>, <<>>>>
  /\ pc' = "render"
  /\ UNCHANGED <<page, entreprise, statut, rd, raw_codes, comptes, sanitized, mapping,
                 dstr, artifacts, error, sanVars>>

(***************************************************************************)
(* Rendering, lines 127-167 / 256-294.  Literal words and separators of    *)
(* the f-strings are single tokens.                                        *)
(***************************************************************************)
RECURSIVE Join(_, _)
Join(parts, sep) ==
  IF parts = <<>> THEN <<>>
  ELSE IF Len(parts) = 1 THEN parts[1]
  ELSE parts[1] \o sep \o Join(Tail(parts), sep)

\* the codes the files are built from: `codes` (line 126) or `updated_codes`
FinalCodes == IF page = "Generateur PC" THEN sanitized ELSE updated_codes

\* Faulty variant of drop_duplicates: keep="last".
drop_duplicates_last(rows) ==
  LET keep(i) == \A j \in (i + 1)..Len(rows) : rows[j] # rows[i]
      F[i \in 0..Len(rows)] ==
        IF i = 0 THEN <<>> ELSE IF keep(i) THEN Append(F[i - 1], rows[i]) ELSE F[i - 1]
  IN F[Len(rows)]

\* DataFrame.drop_duplicates(): the first of equal rows is kept, order preserved
drop_duplicates(rows) ==
  LET keep(i) == \A j \in 1..(i - 1) : rows[j] # rows[i]
      F[i \in 0..Len(rows)] ==
        IF i = 0 THEN <<>> ELSE IF keep(i) THEN Append(F[i - 1], rows[i]) ELSE F[i - 1]
  IN F[Len(rows)]

\* lines 130-136 / 257-263
df1(codes) ==
  drop_duplicates([i \in 1..Len(codes) |->
    <<<<"PC_PROFILE_">> \o entreprise, statut, None, <<"M2_">> \o codes[i],
      <<"frxProductCatallog:Online">>>>])

\* DataFrame.to_csv(sep=";", index=False, header=False): one line per row, a
\* missing value written as the empty field (no field of the model needs quoting)
to_csv(df) ==
  [r \in 1..Len(df) |->
     Join([k \in 1..5 |-> IF df[r][k] = None THEN <<>> ELSE df[r][k]], <<";">>)
       \o <<"\n">>]

FileName(prefix) == <<prefix>> \o dstr \o <<"0000">>

Download(file_name, data) ==
  artifacts' = Append(artifacts, [file_name |-> file_name, data |-> data])

\* line 127 / 256: dstr = today_yyMMdd()
Today ==
  /\ pc = "render"
  /\ \E d \in Dates : dstr' = d
  /\ pc' = "emit1"
  /\ UNCHANGED <<page, entreprise, statut, rd, raw_codes, comptes, sanitized, map_cols,
                 mapping, updated_codes, changed_mask, not_found, artifacts, error,
                 sanVars>>

emitFrame == <<page, entreprise, statut, rd, raw_codes, comptes, sanitized, map_cols,
               mapping, updated_codes, changed_mask, not_found, dstr, error, sanVars>>

\* lines 138-143 / 265-270
DownloadPCP ==
  /\ pc = "emit1"
  /\ Download(FileName("DFRXHYBRPCP"), to_csv(df1(FinalCodes)))
  /\ pc' = "emit2"
  /\ UNCHANGED emitFrame

\* lines 145-151 / 272-278
DownloadAckCMP ==
  /\ pc = "emit2"
  /\ Download(FileName("AFRXHYBRCMP"),
              << <<"DFRXHYBRCMP">> \o dstr \o <<"000068240530ITDFRXHYBRCMP">> \o dstr
                   \o <<"CCMGHYBFRX                    OK000000">> >>)
  /\ pc' = "emit3"
  /\ UNCHANGED emitFrame

\* line 153 (Générateur PC) and line 280 (Mise à jour M2)
cmp_content ==
  IF page = "Generateur PC"
    THEN <<"PC_">> \o entreprise \o <<";">> \o <<"PC_">> \o entreprise \o <<";">>
           \o <<"PC_PROFILE_">> \o entreprise \o <<";">> \o Join(comptes, <<",">>)
           \o <<";">> \o <<"frxProductCatalog:Online">>
    ELSE <<"PC_">> \o entreprise \o <<";">> \o <<"PC_">> \o entreprise \o <<";">>
           \o <<"PC_PROFILE_">> \o entreprise \o <<";">> \o <<"(MAPPING)">>
           \o <<";">> \o <<"frxProductCatalog:Online">>

\* lines 154-159 / 281-286
DownloadCMP ==
  /\ pc = "emit3"
  /\ Download(FileName("DFRXHYBRCMP"), <<cmp_content>>)
  /\ pc' = "emit4"
  /\ UNCHANGED emitFrame

\* lines 161-167 / 288-294
DownloadAckPCP ==
  /\ pc = "emit4"
  /\ Download(FileName("AFRXHYBRPCP"),
              << <<"DFRXHYBRPCP">> \o dstr \o <<"000068200117ITDFRXHYBRPCP">> \o dstr
                   \o <<"RCMRHYBFRX                    OK000000">> >>)
  /\ pc' = "done"
  /\ UNCHANGED emitFrame

\* The script run is over (st.stop() or its last line); the next interaction
\* reruns the script from the top with nothing kept of the request.
Rerun ==
  /\ pc \in {"stopped", "done"}
  /\ pc' = "form"
  /\ page' = "Generateur PC"
  /\ entreprise' = <<>>
  /\ statut' = <<>>
  /\ rd' = RdIdle
  /\ raw_codes' = <<>>
  /\ comptes' = <<>>
  /\ sanitized' = <<>>
  /\ map_cols' = <<<<>>, <<>>>>
  /\ mapping' = <<>>
  /\ updated_codes' = <<>>
  /\ changed_mask' = <<>>
  /\ not_found' = <<>>
  /\ dstr' = <<>>
  /\ artifacts' = <<>>
  /\ error' = "none"
  /\ UNCHANGED sanVars

Next ==
  \/ Click
  \/ read_any_csv \/ read_any_excel \/ read_any_other
  \/ CsvSeekSample \/ CsvReadSample \/ CsvSniff \/ CsvSeekParse \/ CsvParse
  \/ CsvExhausted \/ ReadReturn \/ ReadError
  \/ ExtractGen \/ ExtractMaj \/ Sanitize
  \/ BuildMapping \/ ApplyMapping
  \/ Today \/ DownloadPCP \/ DownloadAckCMP \/ DownloadCMP \/ DownloadAckPCP
  \/ Rerun

Spec == Init /\ [][Next]_vars

(***************************************************************************)
(* sanitize_code on its own: an argument is typed character by character   *)
(* and the function is applied to it.                                      *)
(***************************************************************************)
Alphabet == {"0", "1", " ", "x", "sup2"}

TypeChar ==
  /\ san_out = NotRun
  /\ Len(san_in) < MaxRawLen
  /\ \E c \in Alphabet : san_in' = Append(san_in, c)
  /\ UNCHANGED <<san_out, flowVars>>

CallSanitize ==
  /\ san_out = NotRun
  /\ san_out' = sanitize_code(san_in)
  /\ UNCHANGED <<san_in, flowVars>>

NextSanitize == TypeChar \/ CallSanitize

SpecSanitize == Init /\ [][NextSanitize]_vars

(***************************************************************************)
(* Properties.                                                             *)
(***************************************************************************)
Emitting == pc \in {"emit1", "emit2", "emit3", "emit4", "done"}
Rendering == pc = "render" \/ Emitting
Mapped == page = "Mise a jour M2" /\ Rendering

\* C1: sanitize_code, for every input string: after trimming, exactly 5 decimal
\* digits give the string left-padded with one "0", exactly 6 decimal digits
\* give the string unchanged, and every other string gives None.
C1_SanitizeContract ==
  san_out # NotRun =>
    LET s == strip(san_in) IN
      san_out = IF IsDecimalString(s) /\ Len(s) = 5 THEN <<"0">> \o s
                ELSE IF IsDecimalString(s) /\ Len(s) = 6 THEN s
                ELSE None

\* C2: in both flows every code that reaches artifact generation is a string
\* of exactly 6 decimal digits, replaced or passed through.
C2_CodesSixDecimalDigits ==
  Rendering =>
    \A i \in 1..Len(FinalCodes) :
      Len(FinalCodes[i]) = 6 /\ IsDecimalString(FinalCodes[i])

\* C3: at no position are changed and unmatched both true, and neither is
\* true exactly when the code is a mapping key mapped to itself.
C3_MasksExclusive ==
  Mapped =>
    /\ Len(changed_mask) = Len(sanitized)
    /\ Len(not_found) = Len(sanitized)
    /\ \A i \in 1..Len(sanitized) :
         /\ ~(changed_mask[i] /\ not_found[i])
         /\ (~changed_mask[i] /\ ~not_found[i])
              <=> (/\ sanitized[i] \in Keys(mapping)
                   /\ Get(mapping, sanitized[i], None) = sanitized[i])

\* C3 witness: one request with a changed, an unmatched and a self-mapped code
C3_Witness ==
  /\ Mapped
  /\ \E i \in 1..Len(sanitized) : changed_mask[i]
  /\ \E i \in 1..Len(sanitized) : not_found[i]
  /\ \E i \in 1..Len(sanitized) : ~changed_mask[i] /\ ~not_found[i]

\* C4 as stated: position by position and with the length kept, a code that
\* is a key is replaced by its mapped code and marked changed; a code that is
\* not a key passes through and is marked unmatched.
C4_ApplyMappingOriginal ==
  Mapped =>
    /\ Len(updated_codes) = Len(sanitized)
    /\ \A i \in 1..Len(sanitized) :
         IF sanitized[i] \in Keys(mapping)
           THEN updated_codes[i] = Get(mapping, sanitized[i], None) /\ changed_mask[i]
           ELSE updated_codes[i] = sanitized[i] /\ not_found[i]

\* C4 amended: as C4, except that a key's position is marked changed exactly
\* when its mapped code differs from the code (and is never marked unmatched);
\* a code that is not a key is marked unmatched and not changed.
C4_ApplyMapping ==
  Mapped =>
    /\ Len(updated_codes) = Len(sanitized)
    /\ \A i \in 1..Len(sanitized) :
         IF sanitized[i] \in Keys(mapping)
           THEN /\ updated_codes[i] = Get(mapping, sanitized[i], None)
                /\ changed_mask[i] <=> Get(mapping, sanitized[i], None) # sanitized[i]
                /\ ~not_found[i]
           ELSE updated_codes[i] = sanitized[i] /\ not_found[i] /\ ~changed_mask[i]

\* C4 witness: the scenario of a replaced code followed by an unmatched one
C4_Witness ==
  /\ Mapped
  /\ Len(sanitized) = 2
  /\ updated_codes[1] # sanitized[1]
  /\ changed_mask = <<TRUE, FALSE>>
  /\ not_found = <<FALSE, TRUE>>

\* The rows of the mapping table on which both sanitize calls succeed.
Surviving(cols) ==
  {i \in 1..Len(cols[1]) :
     /\ sanitize_code(astype_str(cols[1][i])) # None
     /\ sanitize_code(astype_str(cols[2][i])) # None}

\* C5: the mapping holds exactly the pairs of the surviving rows, one per old
\* code, the first surviving row of an old code giving its new code, and the
\* request fails with EmptyMapping exactly when no row survives.
C5_BuildMapping ==
  LET surv == Surviving(map_cols)
      old(i) == sanitize_code(astype_str(map_cols[1][i]))
      new(i) == sanitize_code(astype_str(map_cols[2][i]))
  IN /\ error = "EmptyMapping" => surv = {}
     /\ pc = "apply" =>
          /\ surv # {}
          /\ Keys(mapping) = {old(i) : i \in surv}
          /\ Len(mapping) = Cardinality(Keys(mapping))
          /\ \A k \in 1..Len(mapping) :
               \E i \in surv :
                 /\ old(i) = mapping[k][1]
                 /\ new(i) = mapping[k][2]
                 /\ \A j \in surv : old(j) = old(i) => i <= j

\* C5 witness: two surviving rows share an old code and differ in the new one
C5_Witness ==
  /\ pc = "apply"
  /\ \E i, j \in Surviving(map_cols) :
       /\ i < j
       /\ astype_str(map_cols[1][i]) = astype_str(map_cols[1][j])
       /\ sanitize_code(astype_str(map_cols[2][i]))
            # sanitize_code(astype_str(map_cols[2][j]))

\* C6: a request ends with zero or four artifacts, with zero whenever a check
\* failed, and nothing is emitted before the last check has passed.
C6_AllOrNothing ==
  /\ Len(artifacts) <= 4
  /\ pc \in {"stopped", "done"} => Len(artifacts) \in {0, 4}
  /\ error # "none" => artifacts = <<>> /\ pc = "stopped"
  /\ pc = "stopped" => error # "none"
  /\ pc = "done" => Len(artifacts) = 4
  /\ artifacts # <<>> =>
       /\ Emitting
       /\ error = "none"
       /\ entreprise # <<>> /\ statut # <<>>
       /\ ~AnyNone(sanitized)
       /\ page = "Mise a jour M2" => mapping # <<>>

\* C6 witness: an Update request that passed every check and emitted all four
C6_Witness ==
  pc = "done" /\ page = "Mise a jour M2" /\ Len(artifacts) = 4 /\ error = "none"

\* C7: in both flows the Compte-mapping artifact, named DFRXHYBRCMP<runDate>0000,
\* is the line PC_<company>;PC_<company>;PC_PROFILE_<company>;<the request's
\* accounts joined by commas>;frxProductCatalog:Online.
C7_CompteMapping ==
  Len(artifacts) >= 3 =>
    /\ artifacts[3].file_name = <<"DFRXHYBRCMP">> \o dstr \o <<"0000">>
    /\ artifacts[3].data =
         << <<"PC_">> \o entreprise \o <<";">> \o <<"PC_">> \o entreprise \o <<";">>
              \o <<"PC_PROFILE_">> \o entreprise \o <<";">> \o Join(comptes, <<",">>)
              \o <<";">> \o <<"frxProductCatalog:Online">> >>

\* The line of the Profile-Catalog file for one code.
ProfileLine(c) ==
  <<"PC_PROFILE_">> \o entreprise \o <<";">> \o statut \o <<";">> \o <<";">>
    \o <<"M2_">> \o c \o <<";">> \o <<"frxProductCatallog:Online">> \o <<"\n">>

\* C8: for a non-empty code list the Profile-Catalog artifact has one row per
\* distinct code, no two rows equal, in the order of the codes' first occurrences.
C8_ProfileCatalogRows ==
  (artifacts # <<>> /\ FinalCodes # <<>>) =>
    LET rows == artifacts[1].data
        codes == FinalCodes
        first == {i \in 1..Len(codes) : \A j \in 1..(i - 1) : codes[j] # codes[i]}
    IN /\ Len(rows) = Cardinality({codes[i] : i \in 1..Len(codes)})
       /\ \A a, b \in 1..Len(rows) : a # b => rows[a] # rows[b]
       /\ \A i \in first :
            rows[Cardinality({j \in first : j <= i})] = ProfileLine(codes[i])

\* C8 witness: a code list a, b, a has been rendered
C8_Witness ==
  /\ artifacts # <<>>
  /\ Len(FinalCodes) = 3
  /\ FinalCodes[1] = FinalCodes[3]
  /\ FinalCodes[1] # FinalCodes[2]

\* C9: every value column extraction yields is a trimmed, non-empty string;
\* in particular every account joined into the Compte-mapping artifact of the
\* Generator flow is non-blank.
C9_ExtractedNonBlank ==
  /\ \A i \in 1..Len(raw_codes) : raw_codes[i] # <<>> /\ strip(raw_codes[i]) = raw_codes[i]
  /\ \A i \in 1..Len(comptes) : comptes[i] # <<>> /\ strip(comptes[i]) = comptes[i]

\* C10: read_csv tries utf-8, latin1, cp1252 in this order, the buffer is at
\* offset 0 before each sample read and before each full parse, it returns at
\* the first attempt that succeeds and raises only after all three failed.
C10_ReadCsvOrder ==
  rd.f.suffix = ".csv" =>
    /\ Len(rd.tried) <= Len(Encodings)
    /\ \A k \in 1..Len(rd.tried) : rd.tried[k] = Encodings[k]
    /\ rd.ph \in {"sample", "parse"} => rd.pos = 0
    /\ rd.ph = "returned" =>
         /\ rd.tried # <<>>
         /\ rd.f.out[Len(rd.tried)] = "ok"
         /\ \A k \in 1..(Len(rd.tried) - 1) : rd.f.out[k] # "ok"
    /\ rd.ph = "raised" =>
         /\ rd.tried = Encodings
         /\ \A k \in 1..Len(Encodings) : rd.f.out[k] # "ok"

\* C10 witness: the third encoding succeeds after the first two attempts
\* failed and left the buffer away from offset 0
C10_Witness ==
  /\ rd.ph = "returned"
  /\ rd.tried = Encodings
  /\ rd.f.size > 0

====
